---- MODULE Spec2Model ----
(***************************************************************************)
(* Model of the product-review canister of src/src/index.ts: a             *)
(* StableBTreeMap from product id to Product and the seven exported        *)
(* operations on it.  Every call is one atomic step (the host serialises   *)
(* calls); the variables op, arg, result and before record the last call,  *)
(* its arguments, what it returned (or threw) and the state it started     *)
(* from, until the host has delivered the reply.  The storage itself is    *)
(* taken to work as documented (get, insert, remove and values never       *)
(* fail), so the catch branches of the handlers are not reached.           *)
(***************************************************************************)
EXTENDS Integers, Sequences, FiniteSets

\* ---------------------------------------------------------------- bounds
\* Largest number of ratings held by the storage at one time.
MaxRatings == 2
\* Largest value of the host clock.
MaxTime == 1

\* ---------------------------------------------------------------- inputs
\* Identifiers the uuid generator can return, in the key order of the map.
UuidOrder == <<"p1", "p2">>
UuidPool == {UuidOrder[i] : i \in 1..Len(UuidOrder)}
\* Identifiers a caller can pass: the generated ones and the empty string.
IdInputs == UuidPool \cup {""}

\* A JavaScript number: NaN, or a finite value (here an integer).
NaN == [isNaN |-> TRUE, val |-> 0]
Num(v) == [isNaN |-> FALSE, val |-> v]
\* Ratings a caller can pass (the parameter is a float64).
RatingInputs == {Num(0), Num(1), Num(5), Num(6), NaN}

\* Payloads a caller can pass: two complete ones and one with each field empty.
Payload(n, d, u) == [name |-> n, description |-> d, URL |-> u]
PayloadInputs ==
  { Payload("chair", "wooden", "u1"), Payload("table", "steel", "u2"),
    Payload("", "wooden", "u1"), Payload("chair", "", "u1"),
    Payload("chair", "wooden", "") }

\* ---------------------------------------------------------------- values
\* Opt<T>
None == <<>>
Some(x) == <<x>>

\* Result<T, string>, and the outcome of a call that throws instead.
Ok(v) == [kind |-> "Ok", val |-> v]
Err(m) == [kind |-> "Err", msg |-> m]
Thrown(m) == [kind |-> "Throw", msg |-> m]

\* JavaScript's a < b on numbers: false when either side is NaN.
Lt(a, b) == ~a.isNaN /\ ~b.isNaN /\ a.val < b.val
\* JavaScript's a + b on numbers.
Add(a, b) == IF a.isNaN \/ b.isNaN THEN NaN ELSE Num(a.val + b.val)
\* JavaScript's !s on a string.
Falsy(s) == s = ""
\* JavaScript's s === null || s === undefined on a string.
Nullish(s) == FALSE

\* ---------------------------------------------------------------- storage
\* StableBTreeMap<string, Product>: a function from the stored keys.
EmptyMap == [k \in {} |-> 0]
MapGet(m, k) == IF k \in DOMAIN m THEN Some(m[k]) ELSE None
MapInsert(m, k, v) == [x \in DOMAIN m \cup {k} |-> IF x = k THEN v ELSE m[x]]
MapRemove(m, k) == [x \in DOMAIN m \ {k} |-> m[x]]
MapIsEmpty(m) == DOMAIN m = {}
\* values(): the stored products in key order.
RECURSIVE ValuesFrom(_, _)
ValuesFrom(m, i) ==
  IF i > Len(UuidOrder) THEN <<>>
  ELSE (IF UuidOrder[i] \in DOMAIN m THEN <<m[UuidOrder[i]]>> ELSE <<>>)
         \o ValuesFrom(m, i + 1)
MapValues(m) == ValuesFrom(m, 1)

VARIABLES
  productStorage,  \* the map of products
  time,            \* the value ic.time() returned last
  issued,          \* the identifiers uuidv4 has returned so far
  op,              \* the call being answered, "none" between calls
  arg,             \* its arguments
  result,          \* what it returned or threw
  before,          \* productStorage and time when it was called
  rated,           \* per stored identifier, the ratings accepted for it, in call order
  touched          \* the stored identifiers updated or rated since they were added

vars == <<productStorage, time, issued, op, arg, result, before, rated, touched>>

\* ---------------------------------------------------------------- helpers
RECURSIVE SumFrom(_, _, _)
\* Ratings.reduce((acc, current) => acc + current, 0)
SumFrom(rs, i, acc) ==
  IF i > Len(rs) THEN acc ELSE SumFrom(rs, i + 1, Add(acc, rs[i]))
RatingsSum(rs) == SumFrom(rs, 1, Num(0))

\* (sum / n).toFixed(2): the decimal with two fraction digits nearest to
\* sum / n, the larger one when two are equally near; "NaN" for NaN.  The
\* decimal is held as its count of hundredths.
ToFixed2(sum, n) ==
  IF sum.isNaN THEN [isNaN |-> TRUE, hundredths |-> 0]
  ELSE [isNaN |-> FALSE, hundredths |-> (200 * sum.val + n) \div (2 * n)]
\* parseFloat of such a decimal: the number it denotes, in hundredths.
ParseFloat(s) == s

\* The number of ratings held by the whole storage.
RECURSIVE CountRatings(_, _)
CountRatings(m, ks) ==
  IF ks = {} THEN 0
  ELSE LET k == CHOOSE x \in ks : TRUE
       IN Len(m[k].Ratings) + CountRatings(m, ks \ {k})
TotalRatings(m) == CountRatings(m, DOMAIN m)

\* ---------------------------------------------------------------- handlers' parts
\* validateRating: TRUE when it throws.
ValidateRatingThrows(rating) == Lt(rating, Num(1)) \/ Lt(Num(5), rating)

\* AddMissingFields without the check of the URL.
AddMissingFieldsNoURL(payload) ==
  Falsy(payload.name) \/ Falsy(payload.description)

\* addProduct's input validation.
AddMissingFields(payload) ==
  Falsy(payload.name) \/ Falsy(payload.description) \/ Falsy(payload.URL)

\* ExistingProduct comparing the description instead of the name.
ExistingProductByDescription(m, name) ==
  LET vs == MapValues(m)
      hits == {i \in 1..Len(vs) : vs[i].description = name}
  IN IF hits = {} THEN None
     ELSE Some(vs[CHOOSE i \in hits : \A j \in hits : i <= j])

\* productStorage.values().find((p) => p.name === name)
ExistingProduct(m, name) ==
  LET vs == MapValues(m)
      hits == {i \in 1..Len(vs) : vs[i].name = name}
  IN IF hits = {} THEN None
     ELSE Some(vs[CHOOSE i \in hits : \A j \in hits : i <= j])

\* NewProduct with the record stamped as updated at creation.
NewProductStamped(uuid, t, payload) ==
  [id |-> uuid, Ratings |-> <<>>, created_at |-> t, updated_at |-> Some(t),
   name |-> payload.name, description |-> payload.description,
   URL |-> payload.URL]

\* The record addProduct builds.
NewProduct(uuid, t, payload) ==
  [id |-> uuid, Ratings |-> <<>>, created_at |-> t, updated_at |-> None,
   name |-> payload.name, description |-> payload.description,
   URL |-> payload.URL]

\* RatedProduct putting the new rating first.
RatedProductPrepend(product, rating, t) ==
  [product EXCEPT !.Ratings = <<rating>> \o product.Ratings,
                  !.updated_at = Some(t)]

\* RatedProduct leaving updated_at as it was.
RatedProductUnstamped(product, rating, t) ==
  [product EXCEPT !.Ratings = Append(product.Ratings, rating)]

\* The record rateProduct builds.
RatedProduct(product, rating, t) ==
  [product EXCEPT !.Ratings = Append(product.Ratings, rating),
                  !.updated_at = Some(t)]

\* UpdateMissingFields without the check of the name.
UpdateMissingFieldsNoName(payload) ==
  Falsy(payload.description) \/ Falsy(payload.URL)

\* updateProduct's input validation.
UpdateMissingFields(payload) ==
  Falsy(payload.name) \/ Falsy(payload.description) \/ Falsy(payload.URL)

\* UpdatedProduct stamping the creation time too.
UpdatedProductRecreated(product, payload, t) ==
  [product EXCEPT !.name = payload.name,
                  !.description = payload.description,
                  !.URL = payload.URL,
                  !.created_at = t,
                  !.updated_at = Some(t)]

\* UpdatedProduct starting the ratings afresh.
UpdatedProductResetRatings(product, payload, t) ==
  [product EXCEPT !.name = payload.name,
                  !.description = payload.description,
                  !.URL = payload.URL,
                  !.Ratings = <<>>,
                  !.updated_at = Some(t)]

\* UpdatedProduct letting the payload overwrite the id as well.
UpdatedProductRenamedId(product, payload, t) ==
  [product EXCEPT !.id = payload.name,
                  !.name = payload.name,
                  !.description = payload.description,
                  !.URL = payload.URL,
                  !.updated_at = Some(t)]

\* The record updateProduct builds.
UpdatedProduct(product, payload, t) ==
  [product EXCEPT !.name = payload.name,
                  !.description = payload.description,
                  !.URL = payload.URL,
                  !.updated_at = Some(t)]

\* RemovedFrom reading the record without removing it.
RemovedFromKept(m, id) == m

\* The storage deleteProduct leaves.
RemovedFrom(m, id) == MapRemove(m, id)

\* GetProductsResult answering an empty registry with an empty sequence.
GetProductsResultEmptyOk(m) == Ok(MapValues(m))

GetProductsResult(m) ==
  IF MapIsEmpty(m) THEN Err(<<"No products found">>)
  ELSE Ok(MapValues(m))

\* GetProductResult without the check of the id.
GetProductResultNoIdCheck(m, id) ==
  LET product == MapGet(m, id)
  IN IF product # None THEN Ok(product[1])
     ELSE Err(<<"a product with id=", id, " not found">>)

GetProductResult(m, id) ==
  IF Falsy(id) THEN Err(<<"Invalid id">>)
  ELSE LET product == MapGet(m, id)
       IN IF product # None THEN Ok(product[1])
          ELSE Err(<<"a product with id=", id, " not found">>)

CalculateAverageRatingResult(m, id) ==
  IF Nullish(id) THEN Err(<<"Invalid product id">>)
  ELSE LET product == MapGet(m, id)
       IN IF product # None
          THEN IF Len(product[1].Ratings) = 0 THEN Err(<<"Invalid rating">>)
               ELSE Ok(ParseFloat(ToFixed2(RatingsSum(product[1].Ratings),
                                           Len(product[1].Ratings))))
          ELSE Err(<<"couldn't find product with id=", id,
                     ". product not found">>)

NoResult == [kind |-> "None"]
NoArg == [id |-> "", payload |-> Payload("", "", ""), rating |-> NaN]
Snapshot == [productStorage |-> productStorage, time |-> time]

\* ---------------------------------------------------------------- initial state
Init ==
  /\ productStorage = EmptyMap
  /\ time = 0
  /\ issued = {}
  /\ op = "none"
  /\ arg = NoArg
  /\ result = NoResult
  /\ before = [productStorage |-> EmptyMap, time |-> 0]
  /\ rated = [k \in UuidPool |-> <<>>]
  /\ touched = {}

\* The values the next ic.time() can return: not earlier than the last one.
Clock == {t \in {time, time + 1} : t <= MaxTime}

\* The canister is between calls: the last reply has been delivered.
Idle == op = "none"

\* The record of a call.
Called(name, a, r) ==
  /\ Idle
  /\ op' = name
  /\ arg' = a
  /\ result' = r
  /\ before' = Snapshot

\* A call that changes nothing but the record of the last call.
Query(name, a, r) ==
  /\ Called(name, a, r)
  /\ UNCHANGED <<productStorage, time, issued, rated, touched>>

\* ---------------------------------------------------------------- operations
getProducts ==
  Query("getProducts", NoArg, GetProductsResult(productStorage))

getProduct ==
  \E id \in IdInputs :
    Query("getProduct", [NoArg EXCEPT !.id = id],
          GetProductResult(productStorage, id))

addProduct ==
  \E payload \in PayloadInputs :
    LET a == [NoArg EXCEPT !.payload = payload]
    IN IF AddMissingFields(payload)
       THEN Query("addProduct", a, Err(<<"Missing required fields">>))
       ELSE IF ExistingProduct(productStorage, payload.name) # None
       THEN Query("addProduct", a,
                  Err(<<"Product with the same name already exists">>))
       ELSE \E uuid \in UuidPool \ issued, t \in Clock :
              LET product == NewProduct(uuid, t, payload)
              IN /\ Called("addProduct", a, Ok(product))
                 /\ productStorage' = MapInsert(productStorage, product.id, product)
                 /\ issued' = issued \cup {uuid}
                 /\ time' = t
                 /\ rated' = [rated EXCEPT ![uuid] = <<>>]
                 /\ touched' = touched \ {uuid}

\* calculateAverageRating stamping the record it has averaged.
calculateAverageRatingStamping ==
  \E id \in IdInputs :
    LET a == [NoArg EXCEPT !.id = id]
        r == CalculateAverageRatingResult(productStorage, id)
    IN IF r.kind = "Ok"
       THEN /\ Called("calculateAverageRating", a, r)
            /\ productStorage' =
                 MapInsert(productStorage, id,
                           [productStorage[id] EXCEPT !.updated_at = Some(time)])
            /\ UNCHANGED <<time, issued, rated, touched>>
       ELSE Query("calculateAverageRating", a, r)

calculateAverageRating ==
  \E id \in IdInputs :
    Query("calculateAverageRating", [NoArg EXCEPT !.id = id],
          CalculateAverageRatingResult(productStorage, id))

rateProduct ==
  \E id \in IdInputs, rating \in RatingInputs :
    LET a == [NoArg EXCEPT !.id = id, !.rating = rating]
        productResult == MapGet(productStorage, id)
    IN IF ValidateRatingThrows(rating)
       THEN Query("rateProduct", a,
                  Thrown(<<"Rating should be an integer between 1 and 5.">>))
       ELSE IF productResult = None
       THEN Query("rateProduct", a, Err(<<"Product not found.">>))
       ELSE \E t \in Clock :
              LET updatedProduct == RatedProduct(productResult[1], rating, t)
              IN /\ TotalRatings(productStorage) < MaxRatings
                 /\ Called("rateProduct", a, Ok(updatedProduct))
                 /\ productStorage' = MapInsert(productStorage, id, updatedProduct)
                 /\ time' = t
                 /\ rated' = [rated EXCEPT ![id] = Append(@, rating)]
                 /\ touched' = touched \cup {id}
                 /\ UNCHANGED issued

updateProduct ==
  \E id \in IdInputs, payload \in PayloadInputs :
    LET a == [NoArg EXCEPT !.id = id, !.payload = payload]
        productResult == MapGet(productStorage, id)
    IN IF UpdateMissingFields(payload)
       THEN Query("updateProduct", a, Err(<<"Missing required fields">>))
       ELSE IF productResult = None
       THEN Query("updateProduct", a,
                  Err(<<"couldn't update a product with id=", id,
                        ". product not found">>))
       ELSE \E t \in Clock :
              LET product == productResult[1]
                  updatedProduct == UpdatedProduct(product, payload, t)
              IN /\ Called("updateProduct", a, Ok(updatedProduct))
                 /\ productStorage' =
                      MapInsert(productStorage, product.id, updatedProduct)
                 /\ time' = t
                 /\ touched' = touched \cup {id}
                 /\ UNCHANGED <<issued, rated>>

deleteProduct ==
  \E id \in IdInputs :
    LET a == [NoArg EXCEPT !.id = id]
        removed == MapGet(productStorage, id)
    IN IF removed = None
       THEN Query("deleteProduct", a,
                  Err(<<"couldn't delete a product with id=", id,
                        ". product not found.">>))
       ELSE /\ Called("deleteProduct", a, Ok(removed[1]))
            /\ productStorage' = RemovedFrom(productStorage, id)
            /\ rated' = [rated EXCEPT ![id] = <<>>]
            /\ touched' = touched \ {id}
            /\ UNCHANGED <<time, issued>>

\* The host delivers the reply to the caller; the canister awaits the next call.
reply ==
  /\ ~Idle
  /\ op' = "none"
  /\ arg' = NoArg
  /\ result' = NoResult
  /\ before' = Snapshot
  /\ UNCHANGED <<productStorage, time, issued, rated, touched>>

Next ==
  \/ getProducts
  \/ getProduct
  \/ addProduct
  \/ calculateAverageRating
  \/ rateProduct
  \/ updateProduct
  \/ deleteProduct
  \/ reply

Spec == Init /\ [][Next]_vars
\* ---------------------------------------------------------------- properties
\* The kind of a failure, from its message.
ErrorKind(r) ==
  IF r.kind # "Err" THEN "none"
  ELSE CASE r.msg[1] \in {"Invalid id", "Invalid product id",
                          "Missing required fields", "Invalid rating"}
              -> "InvalidInput"
         [] r.msg[1] \in {"a product with id=", "couldn't find product with id=",
                          "Product not found.",
                          "couldn't update a product with id=",
                          "couldn't delete a product with id="}
              -> "NotFound"
         [] r.msg[1] = "Product with the same name already exists" -> "Conflict"
         [] r.msg[1] = "No products found" -> "EmptyCollection"
         [] OTHER -> "Unexpected"

\* A number in the inclusive range [1,5].
InRange(r) == ~r.isNaN /\ 1 <= r.val /\ r.val <= 5
AllInRange(rs) == \A i \in 1..Len(rs) : InRange(rs[i])
\* The payload has no empty field.
Complete(payload) ==
  payload.name # "" /\ payload.description # "" /\ payload.URL # ""
\* Some record of m has this name.
NameStored(m, name) == \E k \in DOMAIN m : m[k].name = name
\* The call changed nothing in the registry.
Unchanged == productStorage = before.productStorage
\* m and n agree on every key but k.
SameExcept(m, n, k) ==
  /\ DOMAIN m \ {k} = DOMAIN n \ {k}
  /\ \A x \in DOMAIN m \ {k} : m[x] = n[x]

\* C1: every rating stored in every product lies in [1,5].
C1_RatingsInRange ==
  \A k \in DOMAIN productStorage : AllInRange(productStorage[k].Ratings)

\* C2: rate with a rating outside [1,5] returns an InvalidInput failure (an
\* Err value, not a thrown fault) and leaves the registry unchanged.
C2_RateOutOfRangeFails ==
  (op = "rateProduct" /\ ~InRange(arg.rating))
    => /\ result.kind = "Err"
       /\ ErrorKind(result) = "InvalidInput"
       /\ Unchanged

\* C3: every operation ends by returning a tagged Ok or Err result; none ends
\* by throwing.
C3_NoThrow == ~Idle => result.kind \in {"Ok", "Err"}

\* C4: add of a complete payload with an unused name returns Ok(P) with no
\* ratings and no updated_at; get(P.id) then returns Ok(P); the registry is
\* the one before plus the single entry P.id -> P, P.id not stored before.
C4_AddThenGet ==
  (op = "addProduct" /\ Complete(arg.payload)
     /\ ~NameStored(before.productStorage, arg.payload.name))
    => /\ result.kind = "Ok"
       /\ result.val.Ratings = <<>>
       /\ result.val.updated_at = None
       /\ GetProductResult(productStorage, result.val.id) = Ok(result.val)
       /\ result.val.id \notin DOMAIN before.productStorage
       /\ DOMAIN productStorage =
            DOMAIN before.productStorage \cup {result.val.id}
       /\ SameExcept(productStorage, before.productStorage, result.val.id)
C4_Witness ==
  /\ op = "addProduct" /\ result.kind = "Ok"
  /\ before.productStorage # EmptyMap

\* C5: add with an empty name, description or URL fails with InvalidInput and
\* leaves the registry unchanged.
C5_AddIncompleteFails ==
  (op = "addProduct" /\ ~Complete(arg.payload))
    => /\ ErrorKind(result) = "InvalidInput"
       /\ Unchanged
C5_Witness ==
  /\ op = "addProduct" /\ arg.payload.URL = ""
  /\ productStorage # EmptyMap

\* C6 as stated: add with a name equal to a stored record's name fails with
\* Conflict and leaves the registry unchanged.
C6_Original ==
  (op = "addProduct" /\ NameStored(before.productStorage, arg.payload.name))
    => /\ ErrorKind(result) = "Conflict"
       /\ Unchanged
\* C6 amended: add of a payload with a non-empty description and URL and a
\* name equal to a stored record's name fails with Conflict and leaves the
\* registry unchanged.
C6_AddDuplicateNameFails ==
  (op = "addProduct" /\ Complete(arg.payload)
     /\ NameStored(before.productStorage, arg.payload.name))
    => /\ ErrorKind(result) = "Conflict"
       /\ Unchanged
C6_Witness ==
  /\ op = "addProduct" /\ Complete(arg.payload)
  /\ NameStored(before.productStorage, arg.payload.name)
  /\ Cardinality(DOMAIN productStorage) = 2

\* The sum of a sequence of finite numbers.
RECURSIVE Total(_)
Total(rs) == IF rs = <<>> THEN 0 ELSE Head(rs).val + Total(Tail(rs))
\* r is Ok of the mean of rs rounded to two decimals: a count of hundredths
\* within half a hundredth of the mean.
IsRoundedMean(r, rs) ==
  /\ r.kind = "Ok"
  /\ ~r.val.isNaN
  /\ LET d == r.val.hundredths * Len(rs) - 100 * Total(rs)
     IN 2 * d <= Len(rs) /\ -2 * d <= Len(rs)

C8_UpdateFrame ==
  (op = "updateProduct" /\ arg.id \in DOMAIN before.productStorage
     /\ Complete(arg.payload))
    => /\ result.kind = "Ok"
       /\ arg.id \in DOMAIN productStorage
       /\ productStorage[arg.id] = result.val
       /\ result.val.id = arg.id
       /\ result.val.created_at = before.productStorage[arg.id].created_at
       /\ result.val.Ratings = before.productStorage[arg.id].Ratings
       /\ result.val.name = arg.payload.name
       /\ result.val.description = arg.payload.description
       /\ result.val.URL = arg.payload.URL
       /\ result.val.updated_at # None
       /\ result.val.updated_at[1] >= before.time
       /\ \A k \in DOMAIN before.productStorage :
            LET q == before.productStorage[k]
            IN /\ result.val.updated_at[1] >= q.created_at
               /\ q.updated_at # None
                    => result.val.updated_at[1] >= q.updated_at[1]
       /\ DOMAIN productStorage = DOMAIN before.productStorage
       /\ SameExcept(productStorage, before.productStorage, arg.id)
C8_Witness ==
  /\ op = "updateProduct" /\ result.kind = "Ok"
  /\ result.val.name # before.productStorage[arg.id].name
  /\ result.val.Ratings # <<>>
  /\ result.val.updated_at[1] > result.val.created_at
  /\ Cardinality(DOMAIN productStorage) = 2

\* C9: delete of a stored id returns Ok of the stored record and removes
\* exactly that entry, after which get(id) fails with NotFound; delete of an
\* id not stored fails with NotFound and leaves the registry unchanged.
C9_Delete ==
  op = "deleteProduct"
    => IF arg.id \in DOMAIN before.productStorage
       THEN /\ result = Ok(before.productStorage[arg.id])
            /\ arg.id \notin DOMAIN productStorage
            /\ SameExcept(productStorage, before.productStorage, arg.id)
            /\ ErrorKind(GetProductResult(productStorage, arg.id)) = "NotFound"
       ELSE /\ ErrorKind(result) = "NotFound"
            /\ Unchanged
C9_Witness ==
  /\ op = "deleteProduct" /\ result.kind = "Ok"
  /\ productStorage # EmptyMap

\* C10: averageRating fails with InvalidInput for an empty id, with NotFound
\* for a non-empty id that is not stored, with InvalidInput for a stored
\* record without ratings, and returns Ok only for a stored record with at
\* least one rating.
C10_AverageRatingErrors ==
  op = "calculateAverageRating"
    => /\ arg.id = "" => ErrorKind(result) = "InvalidInput"
       /\ (arg.id # "" /\ arg.id \notin DOMAIN productStorage)
            => ErrorKind(result) = "NotFound"
       /\ (arg.id \in DOMAIN productStorage
             /\ productStorage[arg.id].Ratings = <<>>)
            => ErrorKind(result) = "InvalidInput"
       /\ result.kind = "Ok"
            <=> (arg.id \in DOMAIN productStorage
                   /\ productStorage[arg.id].Ratings # <<>>)
\* C11: get, list and averageRating never change the registry, whether they
\* succeed or fail: the mapping and every field of every record are the same
\* before and after the call.
C11_QueriesChangeNothing ==
  op \in {"getProduct", "getProducts", "calculateAverageRating"}
    => /\ productStorage = before.productStorage
       /\ time = before.time
C11_Witness ==
  /\ op = "calculateAverageRating" /\ result.kind = "Ok"
  /\ productStorage[arg.id].updated_at # Some(time)
  /\ Cardinality(DOMAIN productStorage) = 2
\* s is an initial part of t.
IsPrefix(s, t) == Len(s) <= Len(t) /\ SubSeq(t, 1, Len(s)) = s

\* C12: while a product is stored, its id and created_at never change and
\* its ratings only grow by appending: over every call, the ratings before
\* are an initial part of the ratings after.
C12_IdCreatedRatingsStable ==
  \A k \in DOMAIN productStorage \cap DOMAIN before.productStorage :
    /\ productStorage[k].id = before.productStorage[k].id
    /\ productStorage[k].created_at = before.productStorage[k].created_at
    /\ IsPrefix(before.productStorage[k].Ratings, productStorage[k].Ratings)
C12_Witness ==
  /\ op = "rateProduct" /\ result.kind = "Ok"
  /\ before.productStorage[arg.id].Ratings # <<>>
  /\ before.productStorage[arg.id].updated_at # None
  /\ time > productStorage[arg.id].created_at
\* C13: a stored product's updated_at is absent exactly when no successful
\* update or rate has been applied to it since it was added: add stores it
\* absent, every successful update and rate sets it to the current time, and
\* no failed operation and no query sets or clears it.
C13_UpdatedAtTracksMutations ==
  /\ \A k \in DOMAIN productStorage :
       productStorage[k].updated_at = None <=> k \notin touched
  /\ (op = "addProduct" /\ result.kind = "Ok")
       => productStorage[result.val.id].updated_at = None
  /\ (op \in {"updateProduct", "rateProduct"} /\ result.kind = "Ok")
       => productStorage[arg.id].updated_at = Some(time)
  /\ (result.kind # "Ok"
        \/ op \in {"getProduct", "getProducts", "calculateAverageRating"})
       => /\ DOMAIN productStorage = DOMAIN before.productStorage
          /\ \A k \in DOMAIN productStorage :
               productStorage[k].updated_at
                 = before.productStorage[k].updated_at
C13_Witness ==
  /\ op = "rateProduct" /\ result.kind = "Ok"
  /\ before.productStorage[arg.id].updated_at = None
  /\ \E k \in DOMAIN productStorage : productStorage[k].updated_at = None
\* C14: list returns the 'no products found' failure exactly when the
\* registry is empty; otherwise it returns Ok of a sequence holding every
\* stored product exactly once and nothing else.
C14_ListAll ==
  op = "getProducts"
    => /\ ErrorKind(result) = "EmptyCollection" <=> DOMAIN productStorage = {}
       /\ result.kind = "Ok" <=> DOMAIN productStorage # {}
       /\ result.kind = "Ok"
            => /\ \A i \in 1..Len(result.val) :
                    /\ result.val[i].id \in DOMAIN productStorage
                    /\ result.val[i] = productStorage[result.val[i].id]
               /\ \A k \in DOMAIN productStorage :
                    Cardinality({i \in 1..Len(result.val) :
                                   result.val[i] = productStorage[k]}) = 1
C14_Witness ==
  /\ op = "getProducts" /\ result.kind = "Ok"
  /\ Len(result.val) = 2
  /\ result.val[1].created_at > result.val[2].created_at
\* C15: update with an empty payload field fails with InvalidInput, also
\* when the id is not stored; update with a complete payload and an id not
\* stored fails with NotFound; both leave the registry unchanged.
C15_UpdateFailures ==
  op = "updateProduct"
    => /\ ~Complete(arg.payload)
            => ErrorKind(result) = "InvalidInput" /\ Unchanged
       /\ (Complete(arg.payload)
             /\ arg.id \notin DOMAIN before.productStorage)
            => ErrorKind(result) = "NotFound" /\ Unchanged
C15_Witness ==
  /\ op = "updateProduct" /\ arg.payload.name = ""
  /\ arg.id # "" /\ arg.id \notin DOMAIN productStorage
  /\ productStorage # EmptyMap
\* The failure is the one of the rating check, returned or thrown.
InvalidRatingFailure(r) ==
  /\ r.kind \in {"Err", "Throw"}
  /\ r.msg = <<"Rating should be an integer between 1 and 5.">>

\* C16: rate checks the rating before the lookup: with a rating outside
\* [1,5] and an id not stored the failure is the invalid-rating one, not
\* NotFound; with a rating in [1,5] and an id not stored it fails with
\* NotFound and the registry is unchanged; with a rating in [1,5] and a
\* stored id it appends the rating as the last element of that record's
\* ratings and changes no other record.
C16_RateOrder ==
  op = "rateProduct"
    => /\ (~InRange(arg.rating) /\ arg.id \notin DOMAIN before.productStorage)
            => InvalidRatingFailure(result)
       /\ (InRange(arg.rating) /\ arg.id \notin DOMAIN before.productStorage)
            => ErrorKind(result) = "NotFound" /\ Unchanged
       /\ (InRange(arg.rating) /\ arg.id \in DOMAIN before.productStorage)
            => /\ result.kind = "Ok"
               /\ arg.id \in DOMAIN productStorage
               /\ productStorage[arg.id].Ratings
                    = Append(before.productStorage[arg.id].Ratings, arg.rating)
               /\ SameExcept(productStorage, before.productStorage, arg.id)
\* C17: get with an empty id fails with InvalidInput; with a non-empty id
\* that is not stored it fails with NotFound; with a stored id it returns Ok
\* of the record now stored under it, which carries every rating accepted
\* for it.
C17_Get ==
  op = "getProduct"
    => /\ arg.id = "" => ErrorKind(result) = "InvalidInput"
       /\ (arg.id # "" /\ arg.id \notin DOMAIN productStorage)
            => ErrorKind(result) = "NotFound"
       /\ arg.id \in DOMAIN productStorage
            => /\ result = Ok(productStorage[arg.id])
               /\ result.val.id = arg.id
               /\ result.val.Ratings = rated[arg.id]
C17_Witness ==
  /\ op = "getProduct" /\ result.kind = "Ok"
  /\ result.val.Ratings # <<>>
  /\ Cardinality(DOMAIN productStorage) = 2
\* C18: no two distinct stored products have the same name, in every
\* reachable state.
C18_NamesUnique ==
  \A j, k \in DOMAIN productStorage :
    j # k => productStorage[j].name # productStorage[k].name

\* C19: every entry is stored under the key equal to its record's id, and
\* the number of entries changes only by +1 on a successful add and by -1 on
\* a successful delete.
C19_KeysAndCount ==
  /\ \A k \in DOMAIN productStorage : productStorage[k].id = k
  /\ IF op = "addProduct" /\ result.kind = "Ok"
     THEN Cardinality(DOMAIN productStorage)
            = Cardinality(DOMAIN before.productStorage) + 1
     ELSE IF op = "deleteProduct" /\ result.kind = "Ok"
     THEN Cardinality(DOMAIN productStorage)
            = Cardinality(DOMAIN before.productStorage) - 1
     ELSE DOMAIN productStorage = DOMAIN before.productStorage
C19_Witness ==
  /\ op \in {"updateProduct", "rateProduct"} /\ result.kind = "Ok"
  /\ before.productStorage[arg.id].updated_at # None
  /\ Cardinality(DOMAIN productStorage) = 2
====
